---------------------------- MODULE Spec2Model ----------------------------
(***************************************************************************)
(* A model of the Signature Injection Engine and of the request handler    *)
(* that drives it (backend/server.js).                                     *)
(*                                                                         *)
(* JavaScript numbers are IEEE 754 binary64 values.  The first part of the *)
(* module implements binary64 arithmetic (round to nearest, ties to even)  *)
(* on arbitrary-precision naturals, so that normalizeCoordinates is        *)
(* computed bit for bit as node computes it.                               *)
(***************************************************************************)
EXTENDS Integers, Sequences, FiniteSets, TLC

(***************************************************************************)
(* Arbitrary-precision naturals: little-endian sequences of limbs in       *)
(* 0..Base-1 with a non-zero top limb; zero is << >>.                      *)
(***************************************************************************)
LimbBits == 13
Base == 2 ^ 13
Precision == 53

Pow2(n) == 2 ^ n

\* the number of binary digits of a limb
BitLen(x) == IF x = 0 THEN 0 ELSE CHOOSE k \in 1..LimbBits : Pow2(k - 1) <= x /\ x < Pow2(k)

Limb(a, i) == IF i <= Len(a) THEN a[i] ELSE 0

MaxOf(S) == CHOOSE x \in S : \A y \in S : y <= x

\* drop the zero limbs at the top
BNorm(a) == SubSeq(a, 1, MaxOf({0} \cup {i \in 1..Len(a) : a[i] # 0}))

\* a natural below Base^3
FromNat(n) == BNorm(<<n % Base, (n \div Base) % Base, n \div (Base * Base)>>)

RECURSIVE BAddC(_, _, _, _)
BAddC(a, b, i, c) ==
    IF i > Len(a) /\ i > Len(b)
    THEN (IF c = 0 THEN << >> ELSE <<c>>)
    ELSE <<(Limb(a, i) + Limb(b, i) + c) % Base>>
             \o BAddC(a, b, i + 1, (Limb(a, i) + Limb(b, i) + c) \div Base)

\* a + b
BAdd(a, b) == BNorm(BAddC(a, b, 1, 0))

RECURSIVE BSubB(_, _, _, _)
BSubB(a, b, i, w) ==
    IF i > Len(a) THEN << >>
    ELSE <<(a[i] - Limb(b, i) - w + Base) % Base>>
             \o BSubB(a, b, i + 1, IF a[i] - Limb(b, i) - w < 0 THEN 1 ELSE 0)

\* a - b for a >= b
BSub(a, b) == BNorm(BSubB(a, b, 1, 0))

\* the order of a and b given the highest limb k in which they differ
CmpAt(a, b, k) == IF k = 0 THEN 0 ELSE IF a[k] < b[k] THEN -1 ELSE 1

\* -1, 0, 1 as a < b, a = b, a > b
BCmp(a, b) ==
    IF Len(a) < Len(b) THEN -1
    ELSE IF Len(a) > Len(b) THEN 1
    ELSE CmpAt(a, b, MaxOf({0} \cup {i \in 1..Len(a) : a[i] # b[i]}))

Zeros(n) == [i \in 1..n |-> 0]

BShlLimbs(a, n) == IF a = << >> THEN << >> ELSE Zeros(n) \o a

RECURSIVE BMulSmallC(_, _, _, _)
BMulSmallC(a, k, i, c) ==
    IF i > Len(a)
    THEN (IF c = 0 THEN << >> ELSE <<c>>)
    ELSE <<(a[i] * k + c) % Base>> \o BMulSmallC(a, k, i + 1, (a[i] * k + c) \div Base)

\* a * k for 0 <= k < Base
BMulSmall(a, k) == IF k = 0 THEN << >> ELSE BMulSmallC(a, k, 1, 0)

\* the sum of the limb products a[i] * b[k + 1 - i] of column k
RECURSIVE ColSum(_, _, _, _)
ColSum(a, b, k, i) ==
    IF i > Len(a) \/ i > k THEN 0
    ELSE (IF k + 1 - i <= Len(b) THEN a[i] * b[k + 1 - i] ELSE 0) + ColSum(a, b, k, i + 1)

\* the limbs of the column sums col[k..n] with the carry c coming in
RECURSIVE Carry(_, _, _, _)
Carry(col, k, n, c) ==
    IF k > n THEN FromNat(c)
    ELSE <<(col[k] + c) % Base>> \o Carry(col, k + 1, n, (col[k] + c) \div Base)

\* a * b for a and b of at most 15 limbs
BMul(a, b) ==
    IF a = << >> \/ b = << >> THEN << >>
    ELSE BNorm(Carry([k \in 1..(Len(a) + Len(b) - 1) |-> ColSum(a, b, k, 1)],
                     1, Len(a) + Len(b) - 1, 0))

\* a * 2^n
BShl(a, n) == BShlLimbs(BMulSmall(a, Pow2(n % LimbBits)), n \div LimbBits)

\* d \div 2^r for r < LimbBits
ShrBits(d, r) ==
    BNorm([i \in 1..Len(d) |->
             (d[i] \div Pow2(r)) + (Limb(d, i + 1) % Pow2(r)) * Pow2(LimbBits - r)])

\* a \div 2^n
BShr(a, n) ==
    ShrBits(IF n \div LimbBits >= Len(a) THEN << >>
            ELSE SubSeq(a, n \div LimbBits + 1, Len(a)), n % LimbBits)

BLen(a) == IF a = << >> THEN 0 ELSE (Len(a) - 1) * LimbBits + BitLen(a[Len(a)])

\* the estimate q0 of u \div d is at most 2 too large
Corrected(u, d, q0) ==
    IF BCmp(BMulSmall(d, q0), u) <= 0 THEN q0
    ELSE IF BCmp(BMulSmall(d, q0 - 1), u) <= 0 THEN q0 - 1
    ELSE q0 - 2

AtMost(x, top) == IF x > top THEN top ELSE x

\* One step of long division in base Base, for a divisor d whose top limb is
\* at least Base / 2 and u < d * Base: the quotient limb u \div d, from an
\* estimate by the top limbs.
QuotLimb(u, d) ==
    Corrected(u, d,
              AtMost((Limb(u, Len(d) + 1) * Base + Limb(u, Len(d))) \div d[Len(d)], Base - 1))

\* <<q, u - d * q>>
StepOf(u, d, q) == <<q, BSub(u, BMulSmall(d, q))>>

\* one step of long division: limb j of n is brought down to the running
\* remainder r; <<quotient limb, new remainder>>
DivStep(n, d, j, r) ==
    StepOf(BNorm(<<n[j]>> \o r), d, QuotLimb(BNorm(<<n[j]>> \o r), d))

\* the steps from limb j of the quotient down to limb 1; s is the step just
\* made (its quotient limb is never negative), q the quotient limbs so far,
\* most significant first
RECURSIVE DivLoop(_, _, _, _, _)
DivLoop(n, d, j, s, q) ==
    IF s[1] < 0 THEN << >>
    ELSE IF j < 1 THEN <<q \o <<s[1]>>, s[2]>>
    ELSE DivLoop(n, d, j - 1, DivStep(n, d, j, s[2]), q \o <<s[1]>>)

Reverse(q) == [i \in 1..Len(q) |-> q[Len(q) + 1 - i]]

\* the division of n by d, both scaled so that the top limb of d is at least
\* Base / 2, for a quotient of k limbs
DivScaled(n, d, k) ==
    IF k < 1 THEN <<<<0>>, n>>
    ELSE DivLoop(n, d, k - 1, DivStep(n, d, k, SubSeq(n, k + 1, Len(n))), << >>)

QuotRem(n, d) == DivScaled(n, d, Len(n) - Len(d) + 1)

\* <<n \div d, whether n % d # 0>> for d # 0
DivResult(qr) == <<BNorm(Reverse(qr[1])), qr[2] # << >>>>

BDivMod(n, d) ==
    DivResult(QuotRem(BShl(n, LimbBits - BitLen(d[Len(d)])),
                      BShl(d, LimbBits - BitLen(d[Len(d)]))))

(***************************************************************************)
(* binary64: [s |-> sign, m |-> significand, e |-> exponent], the value    *)
(* (-1)^s * m * 2^e with 2^52 <= m < 2^53, or m = << >> for zero.  The     *)
(* representation is canonical, so record equality is numeric equality     *)
(* (JavaScript's === on finite numbers).  Exponents are not range-limited: *)
(* the values of this program stay far from overflow and subnormals.       *)
(***************************************************************************)
FZero == [s |-> 0, m |-> << >>, e |-> 0]

\* the rounded significand q2 at exponent e, renormalized if it carried
Renorm(s, q2, e) ==
    IF BLen(q2) > Precision
    THEN [s |-> s, m |-> BShr(q2, 1), e |-> e + 1]
    ELSE [s |-> s, m |-> q2, e |-> e]

\* q rounded up or not: c is the order of the cut-off part and one half
RoundUp(s, q, e, c) ==
    Renorm(s, IF c > 0 \/ (c = 0 /\ q[1] % 2 = 1) THEN BAdd(q, <<1>>) ELSE q, e)

\* m cut by sh binary digits to q
RoundCut(s, m, e, sh, q) ==
    RoundUp(s, q, e + sh, BCmp(BSub(m, BShl(q, sh)), BShl(<<1>>, sh - 1)))

\* m has L binary digits
RoundLen(s, m, e, L) ==
    IF L = 0 THEN FZero
    ELSE IF L <= Precision
    THEN [s |-> s, m |-> BShl(m, Precision - L), e |-> e - (Precision - L)]
    ELSE RoundCut(s, m, e, L - Precision, BShr(m, L - Precision))

\* the binary64 nearest to (-1)^s * m * 2^e, ties to even
Round(s, m, e) == RoundLen(s, m, e, BLen(m))

FromInt(n) == Round(IF n < 0 THEN 1 ELSE 0, FromNat(IF n < 0 THEN -n ELSE n), 0)

FNeg(a) == IF a.m = << >> THEN a ELSE [a EXCEPT !.s = 1 - a.s]

\* operands more than Precision + 11 binary places apart: the smaller one
\* only decides the rounding direction, so it is moved up to that distance
FarApart == 64

\* the sum of (-1)^hs * mh * 2^e and (-1)^ls * ml * 2^e; c orders mh and ml
AddAligned(hs, mh, ls, ml, e, c) ==
    Round(IF c >= 0 THEN hs ELSE ls,
          IF hs = ls THEN BAdd(mh, ml) ELSE IF c >= 0 THEN BSub(mh, ml) ELSE BSub(ml, mh),
          e)

\* hi has the larger exponent, by d
AddShifted(hi, lo, d, mh) == AddAligned(hi.s, mh, lo.s, lo.m, hi.e - d, BCmp(mh, lo.m))

AddOrdered(hi, lo) ==
    AddShifted(hi, lo, AtMost(hi.e - lo.e, FarApart), BShl(hi.m, AtMost(hi.e - lo.e, FarApart)))

FAdd(a, b) ==
    IF a.m = << >> THEN b
    ELSE IF b.m = << >> THEN a
    ELSE AddOrdered(IF a.e >= b.e THEN a ELSE b, IF a.e >= b.e THEN b ELSE a)

FSub(a, b) == FAdd(a, FNeg(b))

FMul(a, b) ==
    IF a.m = << >> \/ b.m = << >> THEN FZero
    ELSE Round((a.s + b.s) % 2, BMul(a.m, b.m), a.e + b.e)

\* the quotient with one more digit that tells whether a remainder is left
Sticky(qr) == BAdd(BMulSmall(qr[1], 2), IF qr[2] THEN <<1>> ELSE << >>)

\* b is not zero (JavaScript would give Infinity or NaN)
FDiv(a, b) ==
    IF a.m = << >> \/ b.m = << >> THEN FZero
    ELSE Round((a.s + b.s) % 2, Sticky(BDivMod(BShl(a.m, FarApart), b.m)),
               a.e - b.e - FarApart - 1)

\* -1, 0, 1 as a < b, a = b, a > b
FMagCmp(a, b) ==
    IF a.m = << >> /\ b.m = << >> THEN 0
    ELSE IF a.m = << >> THEN -1
    ELSE IF b.m = << >> THEN 1
    ELSE IF a.e # b.e THEN (IF a.e < b.e THEN -1 ELSE 1)
    ELSE BCmp(a.m, b.m)

FCmp(a, b) ==
    IF a.s # b.s THEN (IF a.s = 1 THEN -1 ELSE 1)
    ELSE IF a.s = 0 THEN FMagCmp(a, b) ELSE FMagCmp(b, a)

\* the number a decimal or fraction literal n/d denotes: the binary64
\* nearest to the rational n/d
Dbl(n, d) == FDiv(FromInt(n), FromInt(d))

(***************************************************************************)
(* Values of the program.  A JavaScript value that may be null is a record *)
(* with a kind; strings are sequences of tokens, so that startsWith and    *)
(* split are computed on their text.                                       *)
(***************************************************************************)
Null == [kind |-> "null", tokens |-> << >>]

Str(tokens) == [kind |-> "string", tokens |-> tokens]

\* !value for null and strings
Falsy(v) == v.kind = "null" \/ v.tokens = << >>

\* the bytes Buffer.from(text, 'base64') yields for the payloads of the
\* model: the leading characters of the base64 text decide what the bytes are
Base64Decode(text) ==
    IF text = <<"iVBORw0KGgo">> THEN "PNG"
    ELSE IF text = <<"/9j/4AAQSkZJRg">> THEN "JPEG"
    ELSE IF text = <<"R0lGODlh">> THEN "GIF"
    ELSE IF text = <<"AAAA">> THEN "zero-bytes"
    ELSE ""

\* the parts of String.prototype.split(sep) for a separator token
RECURSIVE Split(_, _)
Split(tokens, sep) ==
    IF \A i \in 1..Len(tokens) : tokens[i] # sep THEN <<tokens>>
    ELSE LET i == CHOOSE k \in 1..Len(tokens) :
                      tokens[k] = sep /\ \A j \in 1..(k - 1) : tokens[j] # sep
         IN  <<SubSeq(tokens, 1, i - 1)>> \o Split(SubSeq(tokens, i + 1, Len(tokens)), sep)

NoImage == [buffer |-> "", mime |-> "none"]

parseBase64Image(dataUrl) ==
    IF Falsy(dataUrl) \/ dataUrl.tokens[1] # "data:" THEN NoImage
    ELSE LET parts == Split(dataUrl.tokens, ";base64,")
         IN  IF Len(parts) # 2 THEN NoImage
             ELSE [buffer |-> Base64Decode(parts[2]),
                   mime   |-> IF Len(parts[1]) >= 2 THEN parts[1][2] ELSE ""]

\* a normalizer that scales the horizontal values by the page height
normalizeByHeight(field, pdfWidth, pdfHeight) ==
    [x      |-> FMul(field.xPct, pdfHeight),
     y      |-> FMul(FSub(FSub(FromInt(1), field.yPct), field.hPct), pdfHeight),
     width  |-> FMul(field.wPct, pdfHeight),
     height |-> FMul(field.hPct, pdfHeight)]

\* a normalizer that keeps the top-left origin of the authoring side
normalizeTopLeft(field, pdfWidth, pdfHeight) ==
    [x      |-> FMul(field.xPct, pdfWidth),
     y      |-> FMul(field.yPct, pdfHeight),
     width  |-> FMul(field.wPct, pdfWidth),
     height |-> FMul(field.hPct, pdfHeight)]

\* Math.max(0, Math.min(pct, 1))
Clamp01(pct) ==
    IF FCmp(pct, FZero) < 0 THEN FZero ELSE IF FCmp(pct, FromInt(1)) > 0 THEN FromInt(1) ELSE pct

\* a normalizer that clamps the percentages into [0, 1] first
normalizeClamped(field, pdfWidth, pdfHeight) ==
    [x      |-> FMul(Clamp01(field.xPct), pdfWidth),
     y      |-> FMul(Clamp01(FSub(FSub(FromInt(1), field.yPct), field.hPct)), pdfHeight),
     width  |-> FMul(Clamp01(field.wPct), pdfWidth),
     height |-> FMul(Clamp01(field.hPct), pdfHeight)]

\* field.xPct etc. are binary64 numbers
normalizeCoordinates(field, pdfWidth, pdfHeight) ==
    [x      |-> FMul(field.xPct, pdfWidth),
     y      |-> FMul(FSub(FSub(FromInt(1), field.yPct), field.hPct), pdfHeight),
     width  |-> FMul(field.wPct, pdfWidth),
     height |-> FMul(field.hPct, pdfHeight)]

(***************************************************************************)
(* pdf-lib as the engine uses it.  A document is its pages, each with its  *)
(* size and the draw operations issued on it, and the embedded font.       *)
(***************************************************************************)
NoError == [name |-> "none", message |-> << >>]

Err(name, text) == [name |-> name, message |-> <<text>>]

NoDoc == [font |-> "", modDate |-> "", pages |-> << >>]

BlankPage(w, h) == [w |-> w, h |-> h, ops |-> << >>]

\* PDFDocument.load: the bytes the model uploads and the pages they hold.
\* load is called without options, so pdf-lib updates the metadata of the
\* document: its ModDate becomes new Date(), the instant of the load
PDFLoad(bytes, now) ==
    IF bytes = "%PDF-a4" THEN
        [error |-> NoError,
         doc   |-> [font |-> "", modDate |-> now, pages |-> <<BlankPage(595, 842)>>]]
    ELSE IF bytes = "%PDF-a4-letter" THEN
        [error |-> NoError,
         doc   |-> [font |-> "", modDate |-> now,
                    pages |-> <<BlankPage(595, 842), BlankPage(612, 792)>>]]
    ELSE [error |-> Err("Error", "Failed to parse PDF document: No PDF header found"),
          doc   |-> NoDoc]

\* pdfDoc.embedPng / pdfDoc.embedJpg reject bytes that are not such an image
embedPng(buffer) ==
    IF buffer = "PNG" THEN NoError ELSE Err("Error", "The input is not a PNG file!")

embedJpg(buffer) ==
    IF buffer = "JPEG" THEN NoError ELSE Err("Error", "SOI not found in JPEG")

\* pdfDoc.save(): the output bytes are the serialized document
Serialize(doc) ==
    [format |-> "pdf", font |-> doc.font, modDate |-> doc.modDate, pages |-> doc.pages]

\* crypto.createHash('sha256').update(bytes).digest('hex')
Hash(bytes) == [alg |-> "sha256", of |-> bytes]

Draw(page, op) == [page EXCEPT !.ops = Append(@, op)]

fontSize == FromInt(10)

\* case 'signature', case 'image'
CaseImage(boxed, field, pdfCoords, imageData) ==
    IF imageData = NoImage THEN [error |-> NoError, page |-> boxed]
    ELSE IF imageData.mime = "image/png" /\ embedPng(imageData.buffer) # NoError
    THEN [error |-> embedPng(imageData.buffer), page |-> boxed]
    ELSE IF imageData.mime \in {"image/jpeg", "image/jpg"}
              /\ embedJpg(imageData.buffer) # NoError
    THEN [error |-> embedJpg(imageData.buffer), page |-> boxed]
    ELSE IF imageData.mime \in {"image/png", "image/jpeg", "image/jpg"}
    THEN [error |-> NoError,
          page  |-> Draw(boxed, [op |-> "drawImage", image |-> imageData.buffer,
                                 x |-> pdfCoords.x, y |-> pdfCoords.y,
                                 width |-> pdfCoords.width, height |-> pdfCoords.height])]
    ELSE [error |-> NoError, page |-> boxed]

\* page.drawText encodes the text for the font when it is called: Helvetica
\* is a standard font, and a character WinAnsi has no code for makes it throw
WinAnsi(tokens) == \A i \in 1..Len(tokens) : tokens[i] # "U+2713"

\* case 'text', case 'date'
CaseText(boxed, field, pdfCoords) ==
    IF Falsy(field.value) THEN [error |-> NoError, page |-> boxed]
    ELSE IF ~WinAnsi(field.value.tokens)
    THEN [error |-> Err("Error", "WinAnsi cannot encode U+2713"), page |-> boxed]
    ELSE [error |-> NoError,
          page  |-> Draw(boxed, [op |-> "drawText", text |-> field.value.tokens,
                                 x |-> FAdd(pdfCoords.x, FromInt(2)),
                                 y |-> FSub(FSub(FAdd(pdfCoords.y, pdfCoords.height),
                                                 fontSize), FromInt(2)),
                                 size |-> fontSize])]

\* a radio case that draws the marker whatever the value
CaseRadioMarked(boxed, field, pdfCoords) ==
    [error |-> NoError,
     page  |-> Draw(boxed, [op |-> "drawCircle",
                            x |-> FAdd(pdfCoords.x, FDiv(pdfCoords.width, FromInt(2))),
                            y |-> FAdd(pdfCoords.y, FDiv(pdfCoords.height, FromInt(2))),
                            size |-> FDiv(pdfCoords.width, FromInt(4))])]

\* case 'radio'
CaseRadio(boxed, field, pdfCoords) ==
    IF Falsy(field.value) THEN [error |-> NoError, page |-> boxed]
    ELSE [error |-> NoError,
          page  |-> Draw(boxed, [op |-> "drawCircle",
                                 x |-> FAdd(pdfCoords.x, FDiv(pdfCoords.width, FromInt(2))),
                                 y |-> FAdd(pdfCoords.y, FDiv(pdfCoords.height, FromInt(2))),
                                 size |-> FDiv(pdfCoords.width, FromInt(4))])]

\* the switch on field.type, with the page as the bounding box left it; it
\* has no default case
DrawField(boxed, field, pdfCoords, imageData) ==
    IF field.type \in {"signature", "image"} THEN CaseImage(boxed, field, pdfCoords, imageData)
    ELSE IF field.type \in {"text", "date"} THEN CaseText(boxed, field, pdfCoords)
    ELSE IF field.type = "radio" THEN CaseRadio(boxed, field, pdfCoords)
    ELSE [error |-> NoError, page |-> boxed]

\* the bounding box, drawn for radio fields only, then the switch
DrawAt(page, field, pdfCoords) ==
    DrawField(IF field.type = "radio"
              THEN Draw(page, [op |-> "drawRectangle", x |-> pdfCoords.x, y |-> pdfCoords.y,
                               width |-> pdfCoords.width, height |-> pdfCoords.height])
              ELSE page,
              field, pdfCoords, parseBase64Image(field.value))

\* an injectField that normalizes against the A4 reference frame
injectFieldA4(page, field) ==
    DrawAt(page, field, normalizeCoordinates(field, FromInt(595), FromInt(842)))

\* injectField on an existing page: the page after the call and the error
\* thrown, if any
injectField(page, field) ==
    DrawAt(page, field, normalizeCoordinates(field, FromInt(page.w), FromInt(page.h)))

\* const pageNumber = field.pageNumber || 0
PageNumberOf(field) ==
    IF field.pageNumber = << >> THEN 0 ELSE field.pageNumber[1]

(***************************************************************************)
(* Requests.  A request carries the uploaded file, if any, and the text of *)
(* the body's fields entry.                                                *)
(***************************************************************************)
MaxFields == 2

NoFile == [originalname |-> "", bytes |-> ""]

FilePool ==
    {[originalname |-> "contract.pdf", bytes |-> "%PDF-a4"],
     [originalname |-> "lease.pdf", bytes |-> "%PDF-a4-letter"],
     [originalname |-> "notes.txt", bytes |-> "plain text"]}

Field(id, type, pageNumber, xy, wh, value) ==
    [id |-> id, type |-> type, pageNumber |-> pageNumber,
     xPct |-> xy[1], yPct |-> xy[2], wPct |-> wh[1], hPct |-> wh[2], value |-> value]

TopLeft == <<Dbl(1, 10), Dbl(1, 10)>>

Wide == <<Dbl(3, 10), Dbl(5, 100)>>

PngUrl == Str(<<"data:", "image/png", ";base64,", "iVBORw0KGgo">>)

\* declares a PNG but its payload does not decode to one
BadPngUrl == Str(<<"data:", "image/png", ";base64,", "AAAA">>)

GifUrl == Str(<<"data:", "image/gif", ";base64,", "R0lGODlh">>)

FieldPool ==
    {Field("f1", "text", <<0>>, TopLeft, Wide, Str(<<"Jane Doe">>)),
     Field("f2", "signature", <<0>>, TopLeft, Wide, PngUrl),
     Field("f3", "image", <<0>>, TopLeft, Wide, BadPngUrl),
     Field("f4", "image", <<0>>, TopLeft, Wide, GifUrl),
     Field("f5", "radio", <<1>>, TopLeft, Wide, Str(<<"checked">>)),
     Field("f6", "text", << >>, TopLeft, Wide, Null),
     Field("f7", "checkbox", <<0>>, TopLeft, Wide, Str(<<"on">>)),
     Field("f8", "text", <<-1>>, TopLeft, Wide, Str(<<"Jane Doe">>)),
     Field("f9", "text", <<2>>, TopLeft, Wide, Str(<<"Jane Doe">>))}

FieldLists == UNION {[1..n -> FieldPool] : n \in 0..MaxFields}

\* req.body.fields: absent, or a text that is or is not JSON
NoBody == [kind |-> "absent", list |-> << >>]

JsonText(list) == [kind |-> "json", list |-> list]

BodyPool == {NoBody, [kind |-> "malformed", list |-> << >>]} \cup {JsonText(l) : l \in FieldLists}

\* JSON.parse(fieldsJson)
JSONParse(text) ==
    IF text.kind = "json" THEN [error |-> NoError, value |-> text.list]
    ELSE [error |-> Err("SyntaxError", "Unexpected token in JSON"), value |-> << >>]

(***************************************************************************)
(* State of the server: one record per request being handled, the files in *)
(* uploads/ and output/, the connection to the audit database and the      *)
(* calls of logAuditEntry; the call under test of the normalizer; and the  *)
(* state of the placement editor (the hooks of App).                       *)
(***************************************************************************)
VARIABLES run, upload, output, db, audits, call, editor

vars == <<run, upload, output, db, audits, call, editor>>

NoBytes == ""

NoOutput == [state |-> "absent", bytes |-> Serialize(NoDoc)]

NoResponse == [status |-> 0, sent |-> "nothing", message |-> << >>, body |-> Serialize(NoDoc)]

NoOriginalHash == [alg |-> "none", of |-> NoBytes]

NoFinalHash == [alg |-> "none", of |-> Serialize(NoDoc)]

Idle ==
    [pc |-> "idle", file |-> NoFile, fieldsJson |-> NoBody, fieldsPayload |-> << >>,
     existingPdfBytes |-> NoBytes, originalHash |-> NoOriginalHash, pdfDoc |-> NoDoc, next |-> 0,
     pdfBytes |-> Serialize(NoDoc), finalHash |-> NoFinalHash, thrown |-> NoError,
     error |-> NoError, res |-> NoResponse]

\* the engine as its constructor leaves it
engine == [A4_WIDTH |-> 595, A4_HEIGHT |-> 842]

NoCall == [this |-> engine,
           field |-> Field("", "", << >>, <<FZero, FZero>>, <<FZero, FZero>>, Null),
           pdfWidth |-> FZero, pdfHeight |-> FZero, returned |-> FALSE,
           x |-> FZero, y |-> FZero, width |-> FZero, height |-> FZero]

\* dragStart while no gesture is in progress (null)
NoDrag == [set |-> FALSE, startPdfX |-> FZero, startPdfY |-> FZero, boxX |-> FZero,
           boxY |-> FZero, boxWidth |-> FZero, boxHeight |-> FZero]

\* the hooks of App as useState initialises them: no field, nothing selected
\* (0), no tool (""), no handle (<< >>), zoom 1; events counts the zoom
\* clicks, the fields placed and the pointer moves handled
App == [fields |-> << >>, selectedFieldId |-> 0, activeTool |-> "", zoom |-> FromInt(1),
        isDragging |-> FALSE, isResizing |-> FALSE, resizeHandle |-> << >>,
        dragStart |-> NoDrag, events |-> 0]

\* connectDB, run once at start-up: MONGO_URI is declared nowhere (line 10
\* declares MONGO_URL), so evaluating the argument of mongoose.connect throws
\* a ReferenceError, which the catch logs; the connection is never opened
connectDB == "disconnected"

ServerInit(n) ==
    /\ run = [r \in 1..n |-> Idle]
    /\ upload = [r \in 1..n |-> NoBytes]
    /\ output = [r \in 1..n |-> NoOutput]
    /\ db = connectDB
    /\ audits = << >>

Init == ServerInit(1) /\ call = NoCall /\ editor = App

\* multer: upload.single('pdf') stores the file of the request, if it has one
Receive(r, file, fieldsJson) ==
    /\ run[r].pc = "idle"
    /\ run' = [run EXCEPT ![r].pc = "handler", ![r].file = file, ![r].fieldsJson = fieldsJson]
    /\ upload' = [upload EXCEPT ![r] = file.bytes]
    /\ UNCHANGED <<output, db, audits, call, editor>>

Respond(status, text) ==
    [status |-> status, sent |-> "json", message |-> text, body |-> Serialize(NoDoc)]

NoFileUploaded(r) ==
    /\ run[r].pc = "handler"
    /\ run[r].file = NoFile
    /\ run' = [run EXCEPT ![r].pc = "done",
                          ![r].res = Respond(400, <<"No PDF file uploaded.">>)]
    /\ UNCHANGED <<upload, output, db, audits, call, editor>>

MissingFields(r) ==
    /\ run[r].pc = "handler"
    /\ run[r].file # NoFile
    /\ run[r].fieldsJson.kind = "absent"
    /\ upload' = [upload EXCEPT ![r] = NoBytes]
    /\ run' = [run EXCEPT ![r].pc = "done",
                          ![r].res = Respond(400, <<"Missing fields payload.">>)]
    /\ UNCHANGED <<output, db, audits, call, editor>>

\* JSON.parse and the call of engine.injectFields
ParseFields(r) ==
    /\ run[r].pc = "handler"
    /\ run[r].file # NoFile
    /\ run[r].fieldsJson.kind # "absent"
    /\ LET parsed == JSONParse(run[r].fieldsJson)
       IN  run' = IF parsed.error # NoError
                  THEN [run EXCEPT ![r].pc = "catch", ![r].error = parsed.error]
                  ELSE [run EXCEPT ![r].pc = "readFile", ![r].fieldsPayload = parsed.value]
    /\ UNCHANGED <<upload, output, db, audits, call, editor>>

(***************************************************************************)
(* engine.injectFields, one step per await.  An error thrown inside the    *)
(* try is kept in thrown; the catch wraps its message in a new Error.      *)
(***************************************************************************)
Wrap(thrown) == [name |-> "Error", message |-> <<"PDF injection failed: ">> \o thrown.message]

Throw(r, thrown) == [run EXCEPT ![r].pc = "catch", ![r].thrown = thrown, ![r].error = Wrap(thrown)]

\* a read that hashes the name of the file, not its bytes
ReadFileHashName(r) ==
    /\ run[r].pc = "readFile"
    /\ run' = [run EXCEPT ![r].pc = "load",
                          ![r].existingPdfBytes = upload[r],
                          ![r].originalHash = Hash(run[r].file.originalname)]
    /\ UNCHANGED <<upload, output, db, audits, call, editor>>

\* a read from one path shared by all requests
ReadFileShared(r) ==
    /\ run[r].pc = "readFile"
    /\ run' = [run EXCEPT ![r].pc = "load",
                          ![r].existingPdfBytes = upload[1],
                          ![r].originalHash = Hash(upload[1])]
    /\ UNCHANGED <<upload, output, db, audits, call, editor>>

ReadFile(r) ==
    /\ run[r].pc = "readFile"
    /\ run' = [run EXCEPT ![r].pc = "load",
                          ![r].existingPdfBytes = upload[r],
                          ![r].originalHash = Hash(upload[r])]
    /\ UNCHANGED <<upload, output, db, audits, call, editor>>

\* fs.readFile rejects: an I/O error of the host
ReadFileFails(r) ==
    /\ run[r].pc = "readFile"
    /\ run' = Throw(r, Err("Error", "EIO: i/o error, read"))
    /\ UNCHANGED <<upload, output, db, audits, call, editor>>

\* PDFDocument.load, embedFont and getPages
LoadDocument(r, now) ==
    /\ run[r].pc = "load"
    /\ LET loaded == PDFLoad(run[r].existingPdfBytes, now)
       IN  run' = IF loaded.error # NoError THEN Throw(r, loaded.error)
                  ELSE [run EXCEPT ![r].pc = "fields",
                                   ![r].pdfDoc = [loaded.doc EXCEPT !.font = "Helvetica"],
                                   ![r].next = 1]
    /\ UNCHANGED <<upload, output, db, audits, call, editor>>

\* a loop that clears the value of a placement once it is drawn
InjectedAndCleared(r, pageNumber, drawn) ==
    IF drawn.error # NoError THEN Throw(r, drawn.error)
    ELSE [run EXCEPT ![r].next = @ + 1, ![r].pdfDoc.pages[pageNumber + 1] = drawn.page,
                     ![r].fieldsPayload[run[r].next].value = Null]

\* the loop goes on with the page the field was drawn on, or the run throws
Injected(r, pageNumber, drawn) ==
    IF drawn.error # NoError THEN Throw(r, drawn.error)
    ELSE [run EXCEPT ![r].next = @ + 1, ![r].pdfDoc.pages[pageNumber + 1] = drawn.page]

\* the body of the loop for one field; pages[pageNumber] is undefined for an
\* index below zero, and page.getSize() then throws
InjectInto(r, field, pageNumber, pages) ==
    IF pageNumber >= Len(pages) THEN [run EXCEPT ![r].next = @ + 1]
    ELSE IF pageNumber < 0
    THEN Throw(r, Err("TypeError", "Cannot read properties of undefined (reading 'getSize')"))
    ELSE Injected(r, pageNumber, injectField(pages[pageNumber + 1], field))

\* a loop that takes the placements from the end of the list
InjectLastField(r) ==
    /\ run[r].pc = "fields"
    /\ run[r].next <= Len(run[r].fieldsPayload)
    /\ run' = InjectInto(r, run[r].fieldsPayload[Len(run[r].fieldsPayload) + 1 - run[r].next],
                         PageNumberOf(run[r].fieldsPayload[Len(run[r].fieldsPayload) + 1
                                                           - run[r].next]),
                         run[r].pdfDoc.pages)
    /\ UNCHANGED <<upload, output, db, audits, call, editor>>

\* one iteration of the loop over fieldsPayload
InjectNextField(r) ==
    /\ run[r].pc = "fields"
    /\ run[r].next <= Len(run[r].fieldsPayload)
    /\ run' = InjectInto(r, run[r].fieldsPayload[run[r].next],
                         PageNumberOf(run[r].fieldsPayload[run[r].next]), run[r].pdfDoc.pages)
    /\ UNCHANGED <<upload, output, db, audits, call, editor>>

\* pdfDoc.save()
SaveDocument(r) ==
    /\ run[r].pc = "fields"
    /\ run[r].next > Len(run[r].fieldsPayload)
    /\ run' = [run EXCEPT ![r].pc = "writeFile", ![r].pdfBytes = Serialize(run[r].pdfDoc)]
    /\ UNCHANGED <<upload, output, db, audits, call, editor>>

\* an audit entry that lists only the placements that named a page
AuditEntryOfDrawn(r) ==
    [pdfName |-> run[r].file.originalname, originalHash |-> run[r].originalHash,
     signedHash |-> Hash(run[r].pdfBytes),
     fields |-> SelectSeq(run[r].fieldsPayload,
                          LAMBDA f : PageNumberOf(f) < Len(run[r].pdfDoc.pages))]

AuditEntry(r) ==
    [pdfName |-> run[r].file.originalname, originalHash |-> run[r].originalHash,
     signedHash |-> Hash(run[r].pdfBytes), fields |-> run[r].fieldsPayload]

\* fs.writeFile, the hash of the output, the call of logAuditEntry, which is
\* not awaited, and the return to the handler, which starts the download
WriteFile(r) ==
    /\ run[r].pc = "writeFile"
    /\ output' = [output EXCEPT ![r] = [state |-> "written", bytes |-> run[r].pdfBytes]]
    /\ run' = [run EXCEPT ![r].pc = "download", ![r].finalHash = Hash(run[r].pdfBytes)]
    /\ audits' = Append(audits, [run |-> r, entry |-> AuditEntry(r), save |-> "pending"])
    /\ UNCHANGED <<upload, db, call, editor>>

\* fs.writeFile rejects: the file was not created, or it was created and
\* the write stopped part way (writeFile is not atomic)
WriteFileFails(r) ==
    /\ run[r].pc = "writeFile"
    /\ \E left \in {"absent", "partial"} :
          output' = [output EXCEPT ![r] = [state |-> left, bytes |-> Serialize(NoDoc)]]
    /\ run' = Throw(r, Err("Error", "ENOSPC: no space left on device, write"))
    /\ UNCHANGED <<upload, db, audits, call, editor>>

\* a logAuditEntry without its try: the rejection reaches the run
AuditSaveRethrows(i) ==
    /\ i \in 1..Len(audits)
    /\ audits[i].save = "pending"
    /\ db = "disconnected"
    /\ audits' = [audits EXCEPT ![i].save = "failed, logged"]
    /\ run' = [run EXCEPT ![audits[i].run].error =
                              Err("MongooseError", "Operation buffering timed out")]
    /\ UNCHANGED <<upload, output, db, call, editor>>

\* logAuditEntry after its await: with the database disconnected, save()
\* rejects when the buffering times out; the catch logs the error
AuditSaveFails(i) ==
    /\ i \in 1..Len(audits)
    /\ audits[i].save = "pending"
    /\ db = "disconnected"
    /\ audits' = [audits EXCEPT ![i].save = "failed, logged"]
    /\ UNCHANGED <<run, upload, output, db, call, editor>>

(***************************************************************************)
(* The rest of the handler: the download and its callback, and the catch.  *)
(***************************************************************************)
\* res.download sends the file at outputPath
Download(r) ==
    /\ run[r].pc = "download"
    /\ run' = [run EXCEPT ![r].pc = "sent",
                          ![r].res = [status |-> 200, sent |-> "file", message |-> << >>,
                                      body |-> output[r].bytes]]
    /\ UNCHANGED <<upload, output, db, audits, call, editor>>

\* the transfer fails (the client went away): err is logged
DownloadFails(r) ==
    /\ run[r].pc = "download"
    /\ run' = [run EXCEPT ![r].pc = "sent",
                          ![r].res = [status |-> 200, sent |-> "aborted", message |-> << >>,
                                      body |-> Serialize(NoDoc)]]
    /\ UNCHANGED <<upload, output, db, audits, call, editor>>

\* the callback of res.download unlinks both temporary files
Cleanup(r) ==
    /\ run[r].pc = "sent"
    /\ upload' = [upload EXCEPT ![r] = NoBytes]
    /\ output' = [output EXCEPT ![r] = NoOutput]
    /\ run' = [run EXCEPT ![r].pc = "done"]
    /\ UNCHANGED <<db, audits, call, editor>>

\* the catch of the handler: unlink the upload, answer 500 with the message
Catch(r) ==
    /\ run[r].pc = "catch"
    /\ upload' = [upload EXCEPT ![r] = NoBytes]
    /\ run' = [run EXCEPT ![r].pc = "done", ![r].res = Respond(500, run[r].error.message)]
    /\ UNCHANGED <<output, db, audits, call, editor>>

Step(r) ==
    \/ NoFileUploaded(r)
    \/ MissingFields(r)
    \/ ParseFields(r)
    \/ ReadFile(r)
    \/ ReadFileFails(r)
    \/ InjectNextField(r)
    \/ SaveDocument(r)
    \/ WriteFile(r)
    \/ WriteFileFails(r)
    \/ Download(r)
    \/ DownloadFails(r)
    \/ Cleanup(r)
    \/ Catch(r)

\* the server with the requests and the instants it may be given
Serve(files, bodies, instants) ==
    \/ \E r \in DOMAIN run : \E file \in files : \E body \in bodies : Receive(r, file, body)
    \/ \E r \in DOMAIN run : \E now \in instants : LoadDocument(r, now)
    \/ \E r \in DOMAIN run : Step(r)
    \/ \E i \in 1..Len(audits) : AuditSaveFails(i)

\* new Date() at a load, and at a load a second later, as pdf-lib writes it
Instant == "D:20251201100000Z"

Instants == {Instant, "D:20251201100001Z"}

\* one request, handled at one instant
Next == Serve(FilePool \cup {NoFile}, BodyPool, {Instant})

Spec == Init /\ [][Next]_vars

\* The temporary files of a request: every path of the handler, with lists
\* of placements that draw nothing (no value, no page of that index)
LiveBodies ==
    {NoBody, [kind |-> "malformed", list |-> << >>]}
        \cup {JsonText(l) : l \in UNION {[1..n -> {f \in FieldPool : f.id \in {"f6", "f9"}}] :
                                              n \in 0..MaxFields}}

LiveNext == Serve(FilePool \cup {NoFile}, LiveBodies, {Instant})

\* Node runs every continuation that is ready, and a transfer ends, sent or
\* failed: a step of the handler that stays possible is taken
LiveSpec ==
    /\ Init /\ [][LiveNext]_vars
    /\ WF_vars(\E r \in DOMAIN run : Step(r) \/ LoadDocument(r, Instant))

(***************************************************************************)
(* Several requests in flight.  Each has its own closure of the handler,   *)
(* its own file in uploads/ (multer names it at random) and its own output *)
(* path, derived from that name; engine and the audit model are shared.    *)
(***************************************************************************)
MaxRuns == 2

\* the steps of a request that meets no fault
Complete(r) ==
    \/ ParseFields(r)
    \/ ReadFile(r)
    \/ InjectNextField(r)
    \/ SaveDocument(r)
    \/ WriteFile(r)
    \/ Download(r)
    \/ Cleanup(r)

Contract == [originalname |-> "contract.pdf", bytes |-> "%PDF-a4"]

Lease == [originalname |-> "lease.pdf", bytes |-> "%PDF-a4-letter"]

Signed == JsonText(<<Field("f2", "signature", <<0>>, TopLeft, Wide, PngUrl)>>)

RepeatInit == ServerInit(MaxRuns) /\ call = NoCall /\ editor = App

\* the same document and the same list submitted again, at any instants
RepeatNext ==
    \/ \E r \in DOMAIN run : Receive(r, Contract, Signed)
    \/ \E r \in DOMAIN run : \E now \in Instants : LoadDocument(r, now)
    \/ \E r \in DOMAIN run : Complete(r)
    \/ \E i \in 1..Len(audits) : AuditSaveFails(i)

RepeatSpec == RepeatInit /\ [][RepeatNext]_vars

Ticked == JsonText(<<Field("r1", "radio", <<1>>, TopLeft, Wide, Str(<<"checked">>))>>)

ConcRequests == {[file |-> Contract, body |-> Signed], [file |-> Lease, body |-> Ticked]}

\* two different requests, in flight together in any interleaving
ConcNext ==
    \/ \E r \in DOMAIN run : \E req \in ConcRequests : Receive(r, req.file, req.body)
    \/ \E r \in DOMAIN run : LoadDocument(r, Instant)
    \/ \E r \in DOMAIN run : Complete(r)
    \/ \E i \in 1..Len(audits) : AuditSaveFails(i)

ConcSpec == RepeatInit /\ [][ConcNext]_vars

(***************************************************************************)
(* The rendering rules: one request with a two-page document, an A4 page   *)
(* and a Letter page, and a list of placements of every type.              *)
(***************************************************************************)
Low == <<Dbl(1, 2), Dbl(7, 10)>>

\* the authoring side: a field as the editor holds it, in pixels of the A4
\* frame, a date field with the value its <input type="date"> gave
Placed(id, type, pageNumber, value) ==
    [id |-> id, type |-> type, pageNumber |-> pageNumber, value |-> value,
     x |-> FromInt(60), y |-> FromInt(84), width |-> FromInt(100), height |-> FromInt(30)]

Picked == Str(<<"2025", "-", "12", "-", "25">>)

\* a submission that sends the value as the editor holds it
submitAsHeld(field) ==
    Field(field.id, field.type, field.pageNumber,
          <<FDiv(field.x, FromInt(595)), FDiv(field.y, FromInt(842))>>,
          <<FDiv(field.width, FromInt(595)), FDiv(field.height, FromInt(842))>>, field.value)

\* `${parts[2]}/${parts[1]}/${parts[0]}` when the split gave three parts
DisplayDate(value, parts) ==
    IF Len(parts) = 3 THEN Str(parts[3] \o <<"/">> \o parts[2] \o <<"/">> \o parts[1])
    ELSE value

getNormalizedCoordinates(field) ==
    Field(field.id, field.type, field.pageNumber,
          <<FDiv(field.x, FromInt(595)), FDiv(field.y, FromInt(842))>>,
          <<FDiv(field.width, FromInt(595)), FDiv(field.height, FromInt(842))>>,
          IF field.type = "date" /\ ~Falsy(field.value)
          THEN DisplayDate(field.value, Split(field.value.tokens, "-"))
          ELSE field.value)

RenderPool ==
    {Field("r1", "radio", <<1>>, TopLeft, Wide, Str(<<"checked">>)),
     Field("r2", "radio", <<0>>, Low, Wide, Null),
     Field("r3", "text", <<0>>, TopLeft, Wide, Str(<<"Jane Doe">>)),
     getNormalizedCoordinates(Placed("r4", "date", <<0>>, Picked)),
     Field("r5", "signature", <<0>>, Low, Wide, PngUrl),
     Field("r6", "image", <<1>>, Low, Wide,
           Str(<<"data:", "image/jpg", ";base64,", "/9j/4AAQSkZJRg">>)),
     Field("r7", "image", <<0>>, TopLeft, Wide, Str(<<"signature.png">>)),
     Field("r8", "signature", <<0>>, TopLeft, Wide, Null),
     Field("r9", "text", <<1>>, TopLeft, Wide, Str(<<"Agreed ", "U+2713">>)),
     Field("r10", "text", <<0>>, Low, Wide, Null)}

RenderLists == UNION {[1..n -> RenderPool] : n \in 0..MaxFields}

RenderNext ==
    \/ \E r \in DOMAIN run : \E list \in RenderLists : Receive(r, Lease, JsonText(list))
    \/ \E r \in DOMAIN run : LoadDocument(r, Instant)
    \/ \E r \in DOMAIN run : Complete(r) \/ Catch(r)
    \/ \E i \in 1..Len(audits) : AuditSaveFails(i)

RenderSpec == Init /\ [][RenderNext]_vars

(***************************************************************************)
(* The normalizer on its own: a call with a placement and a page size      *)
(* drawn from a grid of percentages, and its return.                       *)
(***************************************************************************)
PctDen == 20

Pcts == {Dbl(n, PctDen) : n \in 0..PctDen}

Reference == Field("ref", "signature", <<0>>, <<Dbl(1, 10), Dbl(1, 10)>>,
                   <<Dbl(3, 10), Dbl(5, 100)>>, Null)

\* every pair (yPct, hPct) and every xPct and wPct of the grid occurs
Placements ==
    {Field("p", "signature", <<0>>, <<a, b>>, <<b, a>>, Null) : a \in Pcts, b \in Pcts}
        \cup {Reference}

PageSizes == {<<595, 842>>, <<612, 792>>, <<842, 595>>}

Calls ==
    {[NoCall EXCEPT !.field = f, !.pdfWidth = FromInt(size[1]), !.pdfHeight = FromInt(size[2])] :
        f \in Placements, size \in PageSizes}

NormInit == ServerInit(1) /\ call \in Calls /\ editor = App

Normalize ==
    /\ ~call.returned
    /\ LET pdfCoords == normalizeCoordinates(call.field, call.pdfWidth, call.pdfHeight)
       IN  call' = [call EXCEPT !.returned = TRUE, !.x = pdfCoords.x, !.y = pdfCoords.y,
                                !.width = pdfCoords.width, !.height = pdfCoords.height]
    /\ UNCHANGED <<run, upload, output, db, audits, editor>>

NormNext == Normalize

NormSpec == NormInit /\ [][NormNext]_vars

(***************************************************************************)
(* The normalizer given percentages no authoring side would send: below 0, *)
(* above 1, and in range with yPct + hPct above 1.                         *)
(***************************************************************************)
Beyond == {Dbl(n, PctDen) : n \in {-PctDen, -1, PctDen + 1, 2 * PctDen}}

RawPlacements ==
    {Field("q", "text", <<1>>, <<a, b>>, wh, Str(<<"Jane Doe">>)) :
        a \in Beyond, b \in Beyond,
        wh \in {Wide, <<Dbl(PctDen + 1, PctDen), Dbl(PctDen + 1, PctDen)>>,
                <<Dbl(-1, PctDen), Dbl(-1, PctDen)>>}}
        \cup {Field("q", "radio", << >>, <<Dbl(1, 2), Dbl(n, PctDen)>>,
                    <<Dbl(1, 2), Dbl(PctDen + 1 - n, PctDen)>>, Null) : n \in 1..PctDen}

RawCalls ==
    {[NoCall EXCEPT !.field = f, !.pdfWidth = FromInt(size[1]), !.pdfHeight = FromInt(size[2])] :
        f \in RawPlacements, size \in PageSizes}

RawInit == ServerInit(1) /\ call \in RawCalls /\ editor = App

RawSpec == RawInit /\ [][NormNext]_vars

(***************************************************************************)
(* The placement editor: tools, zoom, a click that places a field, and the *)
(* drag and resize gestures.  A pointer position is the pair               *)
(* (clientX - rect.left, clientY - rect.top) in CSS pixels.                *)
(***************************************************************************)
MaxEvents == 2

DEFAULT_FIELD_DIMS ==
    [signature |-> <<180, 80>>, text |-> <<150, 30>>, date |-> <<100, 30>>,
     image |-> <<100, 100>>, radio |-> <<40, 40>>]

MathMax(a, b) == IF FCmp(a, b) >= 0 THEN a ELSE b

MathMin(a, b) == IF FCmp(a, b) <= 0 THEN a ELSE b

\* the object literal of handlePdfClick
newField(id, activeTool, pdfX, pdfY, dims) ==
    [id |-> id, type |-> activeTool, pageNumber |-> <<0>>,
     x |-> MathMax(FZero, MathMin(pdfX, FSub(FromInt(595), FromInt(dims[1])))),
     y |-> MathMax(FZero, MathMin(pdfY, FSub(FromInt(842), FromInt(dims[2])))),
     width |-> FromInt(dims[1]), height |-> FromInt(dims[2]), value |-> Null]

\* the viewer element is A4_WIDTH * zoom by A4_HEIGHT * zoom pixels
OnPage(zoom, at) ==
    /\ at[1] >= 0 /\ FCmp(FromInt(at[1]), FMul(FromInt(595), zoom)) <= 0
    /\ at[2] >= 0 /\ FCmp(FromInt(at[2]), FMul(FromInt(842), zoom)) <= 0

\* the box of a field on screen: left, top, width and height are the
\* field's times zoom
Screen(field, zoom) ==
    [left |-> FMul(field.x, zoom), top |-> FMul(field.y, zoom),
     right |-> FAdd(FMul(field.x, zoom), FMul(field.width, zoom)),
     bottom |-> FAdd(FMul(field.y, zoom), FMul(field.height, zoom))]

\* the pointer is over the box or the label strip 24 pixels high on top of it
OverBox(box, at) ==
    /\ FCmp(box.left, FromInt(at[1])) <= 0 /\ FCmp(FromInt(at[1]), box.right) <= 0
    /\ FCmp(FSub(box.top, FromInt(24)), FromInt(at[2])) <= 0
    /\ FCmp(FromInt(at[2]), box.bottom) <= 0

\* a handle is a disc of 16 pixels centred on its corner of the box
Near(corner, p) ==
    /\ FCmp(FSub(corner, FromInt(8)), FromInt(p)) <= 0
    /\ FCmp(FromInt(p), FAdd(corner, FromInt(8))) <= 0

OverHandle(box, handle, at) ==
    /\ Near(IF handle[2] = "e" THEN box.right ELSE box.left, at[1])
    /\ Near(IF handle[1] = "s" THEN box.bottom ELSE box.top, at[2])

Handles == {<<"n", "w">>, <<"n", "e">>, <<"s", "w">>, <<"s", "e">>}

\* the handles are rendered for the selected field unless it is a radio
HasHandles(k) == editor.selectedFieldId = k /\ editor.fields[k].type # "radio"

\* the button down reaches the box unless a handle lies over it there
OnBox(box, k, at) ==
    /\ OverBox(box, at)
    /\ ~(HasHandles(k) /\ \E h \in Handles : OverHandle(box, h, at))

Gesture == editor.isDragging \/ editor.isResizing

\* a tool button: it toggles the tool and clears the selection
startPlacement(type) ==
    /\ ~Gesture
    /\ editor.events < MaxEvents
    /\ editor' = [editor EXCEPT !.activeTool = IF editor.activeTool = type THEN "" ELSE type,
                                !.selectedFieldId = 0]
    /\ UNCHANGED <<run, upload, output, db, audits, call>>

\* the zoom buttons: setZoom(Math.max(0.5, zoom - 0.25)) and
\* setZoom(Math.min(2, zoom + 0.25))
zoomOut ==
    /\ ~Gesture
    /\ editor.events < MaxEvents
    /\ editor' = [editor EXCEPT !.zoom = MathMax(Dbl(1, 2), FSub(editor.zoom, Dbl(1, 4))),
                                !.events = @ + 1]
    /\ UNCHANGED <<run, upload, output, db, audits, call>>

zoomIn ==
    /\ ~Gesture
    /\ editor.events < MaxEvents
    /\ editor' = [editor EXCEPT !.zoom = MathMin(FromInt(2), FAdd(editor.zoom, Dbl(1, 4))),
                                !.events = @ + 1]
    /\ UNCHANGED <<run, upload, output, db, audits, call>>

\* a click on the viewer with a tool chosen; generateId gives a fresh id
handlePdfClick(at) ==
    /\ editor.activeTool # ""
    /\ ~Gesture
    /\ editor.events < MaxEvents
    /\ OnPage(editor.zoom, at)
    /\ editor' = [editor EXCEPT
           !.fields = Append(@, newField(Len(editor.fields) + 1, editor.activeTool,
                                         FDiv(FromInt(at[1]), editor.zoom),
                                         FDiv(FromInt(at[2]), editor.zoom),
                                         DEFAULT_FIELD_DIMS[editor.activeTool])),
           !.selectedFieldId = Len(editor.fields) + 1,
           !.activeTool = "",
           !.events = @ + 1]
    /\ UNCHANGED <<run, upload, output, db, audits, call>>

\* the button down on the box of field k, not on one of its handles
handleBoxMouseDown(k, at) ==
    /\ editor.activeTool = ""
    /\ ~Gesture
    /\ editor.events < MaxEvents
    /\ OnBox(Screen(editor.fields[k], editor.zoom), k, at)
    /\ editor' = [editor EXCEPT
           !.selectedFieldId = k,
           !.isDragging = TRUE,
           !.dragStart = [NoDrag EXCEPT !.set = TRUE,
                              !.startPdfX = FDiv(FromInt(at[1]), editor.zoom),
                              !.startPdfY = FDiv(FromInt(at[2]), editor.zoom),
                              !.boxX = editor.fields[k].x, !.boxY = editor.fields[k].y]]
    /\ UNCHANGED <<run, upload, output, db, audits, call>>

\* the button down on a handle of field k
handleResizeMouseDown(at, handle, k) ==
    /\ editor.activeTool = ""
    /\ ~Gesture
    /\ editor.events < MaxEvents
    /\ HasHandles(k)
    /\ OverHandle(Screen(editor.fields[k], editor.zoom), handle, at)
    /\ editor' = [editor EXCEPT
           !.selectedFieldId = k,
           !.isResizing = TRUE,
           !.resizeHandle = handle,
           !.dragStart = [set |-> TRUE,
                          startPdfX |-> FDiv(FromInt(at[1]), editor.zoom),
                          startPdfY |-> FDiv(FromInt(at[2]), editor.zoom),
                          boxX |-> editor.fields[k].x, boxY |-> editor.fields[k].y,
                          boxWidth |-> editor.fields[k].width,
                          boxHeight |-> editor.fields[k].height]]
    /\ UNCHANGED <<run, upload, output, db, audits, call>>

\* the drag branch: the box follows the pointer, held on the page
Dragged(field, dragStart, deltaPdfX, deltaPdfY) ==
    [field EXCEPT
        !.x = MathMax(FZero, MathMin(FAdd(dragStart.boxX, deltaPdfX),
                                     FSub(FromInt(595), field.width))),
        !.y = MathMax(FZero, MathMin(FAdd(dragStart.boxY, deltaPdfY),
                                     FSub(FromInt(842), field.height)))]

\* one axis of the resize branch, as <<newX, newWidth>>: the near handle
\* ('w', 'n') moves the near edge by widthChange
Shifted(box, size, change) == <<FAdd(box, change), FSub(size, change)>>

\* the boundary check of one axis: if (newX < 0) { newWidth += newX; newX = 0 }
AtZero(new) == IF FCmp(new[1], FZero) < 0 THEN <<FZero, FAdd(new[2], new[1])>> ELSE new

\* a resize without the check against the right and bottom edges
Unchecked(new, edge) == new

\* if (newX + newWidth > A4_WIDTH) newWidth = A4_WIDTH - newX
AtEdge(new, edge) ==
    IF FCmp(FAdd(new[1], new[2]), edge) > 0 THEN <<new[1], FSub(edge, new[1])>> ELSE new

\* the far handle ('e', 's') moves the far edge; minSize is minWidth or
\* minHeight; then the boundary check
Axis(box, size, delta, minSize, far, edge) ==
    AtEdge(AtZero(IF far THEN <<box, MathMax(minSize, FAdd(size, delta))>>
                  ELSE Shifted(box, size, MathMin(delta, FSub(size, minSize)))),
           edge)

Sized(field, horizontal, vertical) ==
    [field EXCEPT !.x = horizontal[1], !.width = horizontal[2],
                  !.y = vertical[1], !.height = vertical[2]]

\* the resize branch; a handle is 'n' or 's' followed by 'w' or 'e'
Resized(field, dragStart, resizeHandle, deltaPdfX, deltaPdfY) ==
    Sized(field,
          Axis(dragStart.boxX, dragStart.boxWidth, deltaPdfX, FromInt(50),
               resizeHandle[2] = "e", FromInt(595)),
          Axis(dragStart.boxY, dragStart.boxHeight, deltaPdfY, FromInt(30),
               resizeHandle[1] = "s", FromInt(842)))

\* the document's mousemove listener, attached while a gesture is in progress
handleMouseMove(at) ==
    /\ Gesture
    /\ editor.dragStart.set /\ editor.selectedFieldId # 0
    /\ editor.events < MaxEvents
    /\ editor' = [editor EXCEPT
           !.fields[editor.selectedFieldId] =
               IF editor.isDragging
               THEN Dragged(@, editor.dragStart,
                            FSub(FDiv(FromInt(at[1]), editor.zoom), editor.dragStart.startPdfX),
                            FSub(FDiv(FromInt(at[2]), editor.zoom), editor.dragStart.startPdfY))
               ELSE Resized(@, editor.dragStart, editor.resizeHandle,
                            FSub(FDiv(FromInt(at[1]), editor.zoom), editor.dragStart.startPdfX),
                            FSub(FDiv(FromInt(at[2]), editor.zoom), editor.dragStart.startPdfY)),
           !.events = @ + 1]
    /\ UNCHANGED <<run, upload, output, db, audits, call>>

handleMouseUp ==
    /\ Gesture
    /\ editor' = [editor EXCEPT !.isDragging = FALSE, !.isResizing = FALSE,
                                !.resizeHandle = << >>, !.dragStart = NoDrag]
    /\ UNCHANGED <<run, upload, output, db, audits, call>>

Tools == {"text", "radio"}

\* pointer positions: left of and above the viewer; the 'nw' and 'se'
\* corners of a text field placed at the first of them at zoom 1, where two
\* of its handles are (the two take every branch of a resize); next to the
\* right bottom corner of the page at zoom 1; and beyond it at every zoom
Pointers == {<<-40, -25>>, <<120, 90>>, <<270, 120>>, <<590, 840>>, <<1300, 1700>>}

AuthorNext ==
    \/ \E type \in Tools : startPlacement(type)
    \/ zoomOut
    \/ zoomIn
    \/ \E at \in Pointers : handlePdfClick(at)
    \/ \E k \in 1..Len(editor.fields), at \in Pointers : handleBoxMouseDown(k, at)
    \/ \E k \in 1..Len(editor.fields), at \in Pointers, handle \in Handles :
           handleResizeMouseDown(at, handle, k)
    \/ \E at \in Pointers : handleMouseMove(at)
    \/ handleMouseUp

AuthorSpec == Init /\ [][AuthorNext]_vars

(***************************************************************************)
(* Properties of the normalizer.                                           *)
(***************************************************************************)
FAbs(a) == [a EXCEPT !.s = 0]

\* |a - b| <= tol
Within(a, b, tol) == FCmp(FAbs(FSub(a, b)), tol) <= 0

\* 2^-50
Tolerance == FMul(Dbl(1, Pow2(25)), Dbl(1, Pow2(25)))

\* the binary64 that prints as 715.6999999999999
JustBelow7157 ==
    FDiv(FAdd(FMul(FromInt(71569999), FromInt(100000000)), FromInt(99999999)),
         FMul(FromInt(10000000), FromInt(1000000)))

IsReferenceCall ==
    /\ call.field = Reference
    /\ call.pdfWidth = FromInt(595)
    /\ call.pdfHeight = FromInt(842)

FormulasHold ==
    /\ call.x = FMul(call.field.xPct, call.pdfWidth)
    /\ call.width = FMul(call.field.wPct, call.pdfWidth)
    /\ call.height = FMul(call.field.hPct, call.pdfHeight)
    /\ call.y = FMul(FSub(FSub(FromInt(1), call.field.yPct), call.field.hPct), call.pdfHeight)

\* C1 (as amended): normalizeCoordinates returns x = xPct*W, width = wPct*W,
\* height = hPct*H and y = (1 - yPct - hPct)*H, each computed in binary64; in
\* the reference case (595x842, placement 0.1, 0.1, 0.3, 0.05) the result is
\* x = 59.5, width = 178.5, height = 42.1 and y = 715.6999999999999, the
\* binary64 next below 715.7.
C1_NormalizeFormulas ==
    call.returned =>
        /\ FormulasHold
        /\ IsReferenceCall =>
              /\ call.x = Dbl(595, 10)
              /\ call.width = Dbl(1785, 10)
              /\ call.height = Dbl(421, 10)
              /\ call.y = JustBelow7157
              /\ FCmp(call.y, Dbl(7157, 10)) < 0

\* C1 witness: the reference call has returned.
C1_ReferenceReturned == call.returned /\ IsReferenceCall

\* C1 as stated: the formulas hold and the reference case yields x = 59.5,
\* y = 715.7, width = 178.5, height = 42.1.
C1_AsStated ==
    call.returned =>
        /\ FormulasHold
        /\ IsReferenceCall =>
              /\ call.x = Dbl(595, 10)
              /\ call.y = Dbl(7157, 10)
              /\ call.width = Dbl(1785, 10)
              /\ call.height = Dbl(421, 10)

AtBottom == call.field.yPct = FSub(FromInt(1), call.field.hPct)

AtTop == call.field.yPct = FZero /\ call.field.hPct = FZero

\* C2 (as amended): in binary64 the origin flip round-trips up to rounding:
\* x/W is within 2^-50 of xPct and (y + height)/H within 2^-50 of 1 - yPct;
\* yPct = 0, hPct = 0 gives y = H exactly; yPct = 1 - hPct gives a y within
\* H * 2^-50 of 0, not always 0 itself.
C2_RoundTripUpToRounding ==
    call.returned =>
        /\ Within(FDiv(call.x, call.pdfWidth), call.field.xPct, Tolerance)
        /\ Within(FDiv(FAdd(call.y, call.height), call.pdfHeight),
                  FSub(FromInt(1), call.field.yPct), Tolerance)
        /\ AtTop => call.y = call.pdfHeight
        /\ AtBottom => Within(call.y, FZero, FMul(call.pdfHeight, Tolerance))

\* C2 witness: a call with yPct = 1 - hPct, hPct not zero, has returned.
C2_BottomReturned == call.returned /\ AtBottom /\ call.field.hPct # FZero

\* C2 as stated: x/W = xPct and (y + height)/H = 1 - yPct exactly, y = H for
\* yPct = 0, hPct = 0, and y = 0 for yPct = 1 - hPct.
C2_AsStated ==
    call.returned =>
        /\ FDiv(call.x, call.pdfWidth) = call.field.xPct
        /\ FDiv(FAdd(call.y, call.height), call.pdfHeight) = FSub(FromInt(1), call.field.yPct)
        /\ AtTop => call.y = call.pdfHeight
        /\ AtBottom => call.y = FZero

(***************************************************************************)
(* Properties of the injection run.                                        *)
(***************************************************************************)
KnownTypes == {"signature", "text", "date", "image", "radio"}

\* the error in thrown was raised by the loop, at the field it stopped on
ThrownInLoop(r) ==
    /\ run[r].thrown # NoError
    /\ run[r].next \in 1..Len(run[r].fieldsPayload)

StoppedOn(r) == run[r].fieldsPayload[run[r].next]

NamesPage(field, doc) ==
    PageNumberOf(field) >= 0 /\ PageNumberOf(field) < Len(doc.pages)

\* the download of the output has been sent
Delivered(r) == run[r].res.status = 200 /\ run[r].res.sent = "file"

\* C3 as stated: a run given a placement of a type outside the closed set
\* ends in a rejection; it does not deliver an output as if the field were
\* valid.
C3_UnknownTypeRejected ==
    \A r \in DOMAIN run :
        (\E i \in 1..Len(run[r].fieldsPayload) : run[r].fieldsPayload[i].type \notin KnownTypes)
            => ~Delivered(r)

\* C4 as stated: a placement whose page index names no existing page, one
\* below zero included, raises no error: the loop never throws on it.
C4_OutOfRangeNeverThrows ==
    \A r \in DOMAIN run :
        ThrownInLoop(r) => NamesPage(StoppedOn(r), run[r].pdfDoc)

\* C5 as stated: a per-field failure of an image or signature placement
\* (undecodable payload, unsupported media type, missing value) never aborts
\* the run: the loop never throws on such a placement of an existing page.
C5_FieldFailureNeverAborts ==
    \A r \in DOMAIN run :
        ThrownInLoop(r) /\ NamesPage(StoppedOn(r), run[r].pdfDoc)
            => StoppedOn(r).type \notin {"signature", "image"}

LoadError == PDFLoad("plain text", "").error

\* what the caller has to tell one kind of fault from another: the class of
\* the error and the part of its message the engine writes itself
FaultKind(error) == <<error.name, error.message[1]>>

\* C6 as stated: the fault of a load failure has a kind of its own: no fault
\* raised by anything else (file read, a field, the output write) has the
\* kind a load failure has.
C6_LoadFaultDistinct ==
    \A r \in DOMAIN run :
        run[r].thrown # NoError /\ run[r].thrown # LoadError
            => FaultKind(run[r].error) # FaultKind(Wrap(LoadError))

Emitted(r) == {i \in 1..Len(audits) : audits[i].run = r}

\* C7 as stated: a run that ended in a fault left no output document, sent
\* none, emitted no audit record, and answered with a failure.
C7_NoPartialOutput ==
    \A r \in DOMAIN run :
        run[r].pc = "done" /\ run[r].error # NoError
            => /\ output[r].state = "absent"
               /\ run[r].res.status = 500
               /\ Emitted(r) = {}

\* C8: a failed save of the audit entry is only logged: the run it belongs
\* to has no error, its output and hashes are those of the serialized
\* document, and its response is the download or is still to come.
C8_SinkFailureOnlyLogged ==
    \A i \in 1..Len(audits) :
        audits[i].save = "failed, logged" =>
            LET r == audits[i].run
            IN  /\ run[r].error = NoError
                /\ run[r].thrown = NoError
                /\ run[r].pdfBytes = Serialize(run[r].pdfDoc)
                /\ run[r].finalHash = Hash(run[r].pdfBytes)
                /\ audits[i].entry.signedHash = run[r].finalHash
                /\ run[r].res.status \in {0, 200}
                /\ Delivered(r) => run[r].res.body = run[r].pdfBytes

\* C8 witness: the save failed before the response was sent, and the
\* download is about to start.
C8_FailedBeforeResponse ==
    \E i \in 1..Len(audits) :
        audits[i].save = "failed, logged" /\ run[audits[i].run].pc = "download"

\* injectFields has returned its output path
Returned(r) == run[r].pc \in {"download", "sent", "done"} /\ run[r].finalHash # NoFinalHash

C9_OneEntryPerRun ==
    \A r \in DOMAIN run :
        IF Returned(r)
        THEN /\ Cardinality(Emitted(r)) = 1
             /\ \A i \in Emitted(r) :
                   audits[i].entry =
                       [pdfName |-> run[r].file.originalname,
                        originalHash |-> Hash(run[r].file.bytes),
                        signedHash |-> Hash(Serialize(run[r].pdfDoc)),
                        fields |-> run[r].fieldsJson.list]
        ELSE Emitted(r) = {}

C9_EntriesKept ==
    /\ Len(audits') >= Len(audits)
    /\ \A i \in 1..Len(audits) : audits'[i].entry = audits[i].entry /\ audits'[i].run = audits[i].run

\* C9: every run that returned emitted exactly one audit entry, holding the
\* document name, the hash of the upload, the hash of the serialized output
\* and the placement list as submitted; a run that did not return emitted
\* none; and no step changes or removes an entry already emitted.
C9_ExactlyOneAuditEntry == []C9_OneEntryPerRun /\ [][C9_EntriesKept]_vars

\* C9 witness: a run whose list holds a placement that was skipped has
\* returned and its entry lists that placement.
C9_EntryListsSkipped ==
    \E i \in 1..Len(audits) :
        /\ Returned(audits[i].run)
        /\ \E k \in 1..Len(audits[i].entry.fields) :
              ~NamesPage(audits[i].entry.fields[k], run[audits[i].run].pdfDoc)

\* C10: originalHash is the digest of the bytes as uploaded, taken while the
\* document is not yet loaded; signedHash is the digest of the serialized
\* bytes, which are the bytes written to the output file and the bytes sent.
C10_HashBinding ==
    \A r \in DOMAIN run :
        /\ run[r].originalHash # NoOriginalHash =>
              /\ run[r].originalHash = Hash(run[r].file.bytes)
              /\ run[r].existingPdfBytes = run[r].file.bytes
        /\ run[r].pc = "load" => run[r].originalHash # NoOriginalHash /\ run[r].pdfDoc = NoDoc
        /\ run[r].finalHash # NoFinalHash =>
              /\ run[r].finalHash = Hash(Serialize(run[r].pdfDoc))
              /\ output[r].state = "written" => Hash(output[r].bytes) = run[r].finalHash
              /\ Delivered(r) => Hash(run[r].res.body) = run[r].finalHash

\* C10 witness: a run with at least one draw operation has delivered its
\* output.
C10_DrawnAndDelivered ==
    \E r \in DOMAIN run :
        /\ Delivered(r)
        /\ \E p \in 1..Len(run[r].pdfDoc.pages) : run[r].pdfDoc.pages[p].ops # << >>

\* C11 as stated: two runs given the same document bytes and the same ordered,
\* non-empty placement list return the same originalHash and the same
\* signedHash, whenever each of them ran.
C11_Deterministic ==
    \A r1 \in DOMAIN run : \A r2 \in DOMAIN run :
        /\ Returned(r1) /\ Returned(r2)
        /\ run[r1].file.bytes = run[r2].file.bytes
        /\ run[r1].fieldsPayload = run[r2].fieldsPayload
        /\ run[r1].fieldsPayload # << >>
        => /\ run[r1].originalHash = run[r2].originalHash
           /\ run[r1].finalHash = run[r2].finalHash

(***************************************************************************)
(* Properties of the rendering rules, stated on one iteration of the loop. *)
(***************************************************************************)
\* the run is in the loop and its current placement names an existing page
Rendering(r) ==
    /\ run[r].pc = "fields"
    /\ run[r].next \in 1..Len(run[r].fieldsPayload)
    /\ NamesPage(StoppedOn(r), run[r].pdfDoc)

\* the step is an iteration of the loop of run r that did not throw
Iterated(r) == run[r].pc = "fields" /\ run'[r].pc = "fields" /\ run'[r].next = run[r].next + 1

\* the page the current placement names, as the document holds it
PageOf(r, doc) == doc.pages[PageNumberOf(StoppedOn(r)) + 1]

\* the box of the current placement, normalized against the page it names
BoxOf(r) ==
    normalizeCoordinates(StoppedOn(r), FromInt(PageOf(r, run[r].pdfDoc).w),
                         FromInt(PageOf(r, run[r].pdfDoc).h))

\* the draw operations the step added to the page of the current placement
Added(r) ==
    SubSeq(PageOf(r, run'[r].pdfDoc).ops, Len(PageOf(r, run[r].pdfDoc).ops) + 1,
           Len(PageOf(r, run'[r].pdfDoc).ops))

Outline(box) ==
    [op |-> "drawRectangle", x |-> box.x, y |-> box.y, width |-> box.width, height |-> box.height]

Marker(box) ==
    [op |-> "drawCircle", x |-> FAdd(box.x, FDiv(box.width, FromInt(2))),
     y |-> FAdd(box.y, FDiv(box.height, FromInt(2))), size |-> FDiv(box.width, FromInt(4))]

C12_RadioStep ==
    \A r \in DOMAIN run :
        Rendering(r) /\ StoppedOn(r).type = "radio" /\ run'[r] # run[r] =>
            /\ Iterated(r)
            /\ Added(r) = IF Falsy(StoppedOn(r).value) THEN <<Outline(BoxOf(r))>>
                          ELSE <<Outline(BoxOf(r)), Marker(BoxOf(r))>>

Text(box, tokens) ==
    [op |-> "drawText", text |-> tokens, x |-> FAdd(box.x, FromInt(2)),
     y |-> FSub(FSub(FAdd(box.y, box.height), FromInt(10)), FromInt(2)), size |-> FromInt(10)]

\* day, month and year of the picked date, joined with '/'
DayMonthYear ==
    <<Picked.tokens[5], "/", Picked.tokens[3], "/", Picked.tokens[1]>>

C13_DateStep ==
    \A r \in DOMAIN run :
        Rendering(r) /\ StoppedOn(r).type = "date" /\ run'[r] # run[r] =>
            /\ Iterated(r)
            /\ Added(r) = <<Text(BoxOf(r), StoppedOn(r).value.tokens)>>
            /\ StoppedOn(r).id = "r4" => Added(r)[1].text = DayMonthYear

\* C13: the placement the authoring side submits for a date picked as
\* YYYY-MM-DD carries DD/MM/YYYY, and the core draws the value of a date
\* placement as it received it: one text operation whose text is the value.
C13_DateDisplayFormat == [][C13_DateStep]_vars

\* C13 witness: the date picked as 2025-12-25 has been drawn on the page the
\* placement names.
C13_PickedDateDrawn ==
    \E r \in DOMAIN run :
        /\ run[r].pc = "writeFile"
        /\ \E i \in 1..Len(run[r].fieldsPayload) : run[r].fieldsPayload[i].id = "r4"
        /\ \E k \in 1..Len(run[r].pdfDoc.pages[1].ops) :
              /\ run[r].pdfDoc.pages[1].ops[k].op = "drawText"
              /\ run[r].pdfDoc.pages[1].ops[k].text = <<"25", "/", "12", "/", "2025">>

\* C14 as stated: the file a request uploaded is eventually deleted on every
\* path; a file at the output path of the request is eventually deleted too;
\* and the output is deleted only once the attempt to send it has finished.
C14_TempFilesDeleted ==
    /\ \A r \in {1} : (upload[r] # NoBytes) ~> (upload[r] = NoBytes)
    /\ \A r \in {1} : (output[r].state # "absent") ~> (output[r].state = "absent")
    /\ [][\A r \in {1} : output[r].state # "absent" /\ output'[r].state = "absent"
                              => run[r].pc = "sent"]_vars

\* the draw operations of the current placement on its own, on the page it
\* names left blank
Alone(r) ==
    injectField(BlankPage(PageOf(r, run[r].pdfDoc).w, PageOf(r, run[r].pdfDoc).h),
                StoppedOn(r)).page.ops

C15_InOrderStep ==
    \A r \in DOMAIN run :
        /\ run'[r].next \in {run[r].next, run[r].next + 1}
        /\ run[r].pdfDoc # NoDoc /\ run'[r].pdfDoc.pages # run[r].pdfDoc.pages
              => Rendering(r) /\ Iterated(r)
        /\ Rendering(r) /\ Iterated(r) =>
              PageOf(r, run'[r].pdfDoc).ops = PageOf(r, run[r].pdfDoc).ops \o Alone(r)
        /\ run[r].pc = "fields" /\ run'[r].pc = "writeFile"
              => run[r].next = Len(run[r].fieldsPayload) + 1

\* C15: the loop takes the placements one at a time in input order: a step
\* moves on by one placement, only an iteration of the loop draws, what it
\* adds to the page is all and only the operations of the current placement,
\* after those of every earlier placement of that page, and the document is
\* saved only when the list is exhausted.
C15_InputOrder == [][C15_InOrderStep]_vars

\* C15 witness: two placements of different types on the same page have been
\* drawn, the operations of the first below those of the second.
C15_SecondOnTop ==
    \E r \in DOMAIN run :
        /\ run[r].pc = "writeFile"
        /\ Len(run[r].fieldsPayload) = 2
        /\ run[r].fieldsPayload[1].type = "text"
        /\ run[r].fieldsPayload[2].type = "radio"
        /\ Len(run[r].pdfDoc.pages[1].ops) = 2
        /\ run[r].pdfDoc.pages[1].ops[1].op = "drawText"
        /\ run[r].pdfDoc.pages[1].ops[2].op = "drawRectangle"

C16_OwnPageStep ==
    \A r \in DOMAIN run :
        Rendering(r) /\ Iterated(r) =>
            /\ \A p \in 1..Len(run[r].pdfDoc.pages) :
                  p # PageNumberOf(StoppedOn(r)) + 1
                      => run'[r].pdfDoc.pages[p] = run[r].pdfDoc.pages[p]
            /\ Len(run'[r].pdfDoc.pages) = Len(run[r].pdfDoc.pages)
            /\ PageOf(r, run'[r].pdfDoc) =
                  DrawAt(PageOf(r, run[r].pdfDoc), StoppedOn(r), BoxOf(r)).page

\* C16: an iteration of the loop for a placement that names an existing page
\* changes that page and no other, and what it draws is placed at the box
\* normalized against the width and height of that very page.
C16_OwnPageOwnSize == [][C16_OwnPageStep]_vars

\* C16 witness: a placement of the second page, which is not A4, has been
\* drawn there at 0.1 of 612 points, and the first page holds nothing.
C16_DrawnOnLetterPage ==
    \E r \in DOMAIN run :
        /\ run[r].pc = "writeFile"
        /\ run[r].pdfDoc.pages[1].ops = << >>
        /\ run[r].pdfDoc.pages[2].ops # << >>
        /\ run[r].pdfDoc.pages[2].ops[1].x = FMul(Dbl(1, 10), FromInt(612))
        /\ run[r].pdfDoc.pages[2].ops[1].x # FMul(Dbl(1, 10), FromInt(595))

(***************************************************************************)
(* Properties of requests in flight together.                              *)
(***************************************************************************)
\* the document of a request handled alone, after the first k placements of
\* its list
RECURSIVE Solo(_, _, _)
Solo(bytes, fields, k) ==
    IF k = 0 THEN [PDFLoad(bytes, Instant).doc EXCEPT !.font = "Helvetica"]
    ELSE [Solo(bytes, fields, k - 1) EXCEPT
              !.pages[PageNumberOf(fields[k]) + 1] = injectField(@, fields[k]).page]

\* the documents of every request, each handled alone
SoloDocs ==
    [req \in ConcRequests |->
        [k \in 0..Len(req.body.list) |-> Solo(req.file.bytes, req.body.list, k)]]

\* the document of the request of run r handled alone, after k placements
SoloDoc(r, k) == SoloDocs[[file |-> run[r].file, body |-> run[r].fieldsJson]][k]

\* C17: with requests in flight together in any interleaving, every run
\* holds the bytes of its own upload and their hash, its document is at every
\* step the one it has when handled alone, the file at its output path, its
\* signedHash, its response body and its audit entry are those of its own
\* output, and every run has emitted at most one entry.
C17_Isolated ==
    /\ \A r \in DOMAIN run :
          /\ upload[r] \in {NoBytes, run[r].file.bytes}
          /\ run[r].existingPdfBytes \in {NoBytes, run[r].file.bytes}
          /\ run[r].originalHash \in {NoOriginalHash, Hash(run[r].file.bytes)}
          /\ run[r].fieldsPayload \in {<< >>, run[r].fieldsJson.list}
          /\ run[r].pdfDoc # NoDoc => run[r].pdfDoc = SoloDoc(r, run[r].next - 1)
          /\ run[r].pdfBytes # Serialize(NoDoc) =>
                run[r].pdfBytes = Serialize(SoloDoc(r, Len(run[r].fieldsJson.list)))
          /\ run[r].finalHash \in {NoFinalHash, Hash(run[r].pdfBytes)}
          /\ output[r] \in {NoOutput, [state |-> "written", bytes |-> run[r].pdfBytes]}
          /\ Delivered(r) => run[r].res.body = run[r].pdfBytes
          /\ Cardinality(Emitted(r)) <= 1
    /\ \A i \in 1..Len(audits) :
          audits[i].entry =
              [pdfName |-> run[audits[i].run].file.originalname,
               originalHash |-> Hash(run[audits[i].run].file.bytes),
               signedHash |-> Hash(run[audits[i].run].pdfBytes),
               fields |-> run[audits[i].run].fieldsJson.list]

\* C17 witness: two requests with different documents are in flight, one in
\* its loop while the other, received later, has its output written, and
\* the two hold different documents.
C17_Overtaken ==
    /\ run[1].pc = "fields"
    /\ run[2].pc = "download"
    /\ run[1].file # run[2].file
    /\ output[2].state = "written"
    /\ run[1].pdfDoc.pages # run[2].pdfDoc.pages

\* the media type a value declares, if it is a base64 data URI
Declared(value) ==
    IF Falsy(value) \/ Len(value.tokens) # 4 THEN ""
    ELSE IF value.tokens[1] # "data:" \/ value.tokens[3] # ";base64," THEN ""
    ELSE value.tokens[2]

Image(box, value) ==
    [op |-> "drawImage", image |-> Base64Decode(<<value.tokens[4]>>),
     x |-> box.x, y |-> box.y, width |-> box.width, height |-> box.height]

C18_ImageStep ==
    \A r \in DOMAIN run :
        Rendering(r) /\ StoppedOn(r).type \in {"signature", "image"} /\ run'[r] # run[r] =>
            /\ Iterated(r)
            /\ Added(r) =
                  IF Declared(StoppedOn(r).value) \in {"image/png", "image/jpeg", "image/jpg"}
                  THEN <<Image(BoxOf(r), StoppedOn(r).value)>>
                  ELSE << >>

\* C18 as stated: the iteration of the loop for a signature or image
\* placement of an existing page raises no error; it draws the decoded image
\* once, at the normalized box, when the value is a base64 data URI that
\* declares PNG or JPEG, and draws nothing for any other value or none.
C18_ImageDrawnOrSkipped == [][C18_ImageStep]_vars

C19_TextStep ==
    \A r \in DOMAIN run :
        Rendering(r) /\ StoppedOn(r).type \in {"text", "date"} /\ run'[r] # run[r] =>
            /\ Iterated(r)
            /\ Added(r) = IF Falsy(StoppedOn(r).value) THEN << >>
                          ELSE <<Text(BoxOf(r), StoppedOn(r).value.tokens)>>

\* C19 as stated: the iteration of the loop for a text or date placement of
\* an existing page issues exactly one text draw when the value is present,
\* at x = box.x + 2 and y = box.y + box.height - 10 - 2 with size 10 on a
\* page of any size, and issues no draw operation when the value is absent.
C19_OneTextDraw == [][C19_TextStep]_vars

C20_Snapshot ==
    \A r \in DOMAIN run :
        run[r].pc \notin {"idle", "handler"} /\ run[r].fieldsJson.kind = "json"
            => run[r].fieldsPayload = run[r].fieldsJson.list

C20_KeptStep ==
    \A r \in DOMAIN run :
        /\ run[r].pc # "handler" => run'[r].fieldsPayload = run[r].fieldsPayload
        /\ run[r].pc # "idle" => run'[r].fieldsJson = run[r].fieldsJson

\* C20: from the moment the list is parsed, through every step of the run
\* and after its end, successful or failed, fieldsPayload is the list as it
\* was submitted: same length, same order, every placement with the same id,
\* type, page index, percentages and value; no step rewrites it.
C20_ListReadOnly == []C20_Snapshot /\ [][C20_KeptStep]_vars

\* C20 witness: a run of two placements has ended, one with its output
\* delivered and drawn on.
C20_RunOfTwoEnded ==
    \E r \in DOMAIN run :
        /\ run[r].pc = "done"
        /\ Delivered(r)
        /\ Len(run[r].fieldsPayload) = 2
        /\ run[r].fieldsPayload[1].value # Null
        /\ run[r].pdfDoc.pages[1].ops # << >>

(***************************************************************************)
(* Properties of the normalizer on percentages out of range.               *)
(***************************************************************************)
Negative(a) == FCmp(a, FZero) < 0

Above(a, b) == FCmp(a, b) > 0

C21_OutOfRange ==
    call.returned =>
        /\ FormulasHold
        /\ Negative(call.field.xPct) => Negative(call.x)
        /\ Above(call.field.xPct, FromInt(1)) => Above(call.x, call.pdfWidth)
        /\ Negative(call.field.wPct) => Negative(call.width)
        /\ Above(call.field.wPct, FromInt(1)) => Above(call.width, call.pdfWidth)
        /\ Negative(call.field.hPct) => Negative(call.height)
        /\ Above(call.field.hPct, FromInt(1)) => Above(call.height, call.pdfHeight)
        /\ Above(FAdd(call.field.yPct, call.field.hPct), FromInt(1)) => Negative(call.y)
        /\ Negative(FAdd(call.field.yPct, call.field.hPct)) => Above(call.y, call.pdfHeight)

C21_CallStep ==
    /\ call'.field = call.field
    /\ call'.this = call.this
    /\ call'.pdfWidth = call.pdfWidth /\ call'.pdfHeight = call.pdfHeight
    /\ UNCHANGED <<run, upload, output, db, audits>>

\* C21: the normalizer does not clamp and keeps no state: for percentages
\* below 0, above 1, or with yPct + hPct above 1 it returns the values of the
\* same four formulas, which are out of range accordingly (x below 0 or
\* beyond the width, y below 0 or beyond the height, and so on); the result
\* is a function of the four percentages and the size alone; and the call
\* changes neither the placement, nor the engine, nor anything else.
C21_NoClampNoState == []C21_OutOfRange /\ [][C21_CallStep]_vars

\* C21 witness: a call with xPct below 0 and yPct + hPct above 1 has
\* returned an x below 0 and a y below 0.
C21_OutsideReturned ==
    /\ call.returned
    /\ Negative(call.field.xPct) /\ Negative(call.x)
    /\ Above(FAdd(call.field.yPct, call.field.hPct), FromInt(1)) /\ Negative(call.y)

(***************************************************************************)
(* Properties of the placement editor.                                     *)
(***************************************************************************)
\* a box with its corner at (x, y) lies within 0..w by 0..h
InPage(box, w, h) ==
    /\ FCmp(box.x, FZero) >= 0 /\ FCmp(box.y, FZero) >= 0
    /\ FCmp(FAdd(box.x, box.width), w) <= 0
    /\ FCmp(FAdd(box.y, box.height), h) <= 0

Held(field) ==
    /\ InPage(field, FromInt(595), FromInt(842))
    /\ FCmp(field.width, FZero) > 0 /\ FCmp(field.height, FZero) > 0

InUnit(pct) == FCmp(pct, FZero) >= 0 /\ FCmp(pct, FromInt(1)) <= 0

Fractions(field) ==
    /\ InUnit(field.xPct) /\ InUnit(field.yPct) /\ InUnit(field.wPct) /\ InUnit(field.hPct)
    /\ FCmp(FAdd(field.xPct, field.wPct), FromInt(1)) <= 0
    /\ FCmp(FAdd(field.yPct, field.hPct), FromInt(1)) <= 0

\* the target pages, and each with the margin Tolerance allows beyond its
\* edges: the lowest y and the highest x + width and y + height
Target(w, h) ==
    [w |-> w, h |-> h, yMin |-> FNeg(FMul(h, Tolerance)),
     xMax |-> FAdd(w, FMul(w, Tolerance)), yMax |-> FAdd(h, FMul(h, Tolerance))]

Targets == {Target(FromInt(size[1]), FromInt(size[2])) : size \in PageSizes}

\* the same up to rounding
NearlyInPage(box, page) ==
    /\ FCmp(box.x, FZero) >= 0
    /\ FCmp(box.y, page.yMin) >= 0
    /\ FCmp(FAdd(box.x, box.width), page.xMax) <= 0
    /\ FCmp(FAdd(box.y, box.height), page.yMax) <= 0

\* a submitted placement and what the engine makes of it on every page size
Lands(field) ==
    /\ Fractions(field)
    /\ \A page \in Targets :
           InPage(normalizeCoordinates(field, page.w, page.h), page.w, page.h)

NearlyLands(field) ==
    /\ Fractions(field)
    /\ \A page \in Targets :
           NearlyInPage(normalizeCoordinates(field, page.w, page.h), page)

=============================================================================
